---- MODULE Spec2Model ----
(***************************************************************************)
(* MapSee-AI place-extraction service.                                     *)
(*                                                                         *)
(* The model follows one inbound /api/extract-places request from the      *)
(* request handler (place_router.extract_places) through the background    *)
(* task (background_tasks.process_extraction_in_background), the content   *)
(* router (content_router.sns_router / type_router), the extraction stages *)
(* and the callback delivery (background_tasks.send_callback).             *)
(* SpecConcurrent interleaves the tasks of several requests, SpecLive adds *)
(* the fairness of the event loop, SpecRouter and SpecFailed run the       *)
(* router and the task over a wide set of URLs.  Some calls are followed   *)
(* on their own: the narrow place-name extraction (SpecOllama), the region *)
(* computation (SpecRoi), the subtitle-frame extractor (SpecFrames) and    *)
(* the narration stage that calls the last two (SpecNarration).            *)
(*                                                                         *)
(* Strings are sequences of tokens.  A token stands for a run of           *)
(* characters; the alphabet is chosen so that a needle the code searches   *)
(* for ("youtube.com", "/p/", ...) occurs in a string exactly when its     *)
(* tokens occur contiguously in the token sequence.                        *)
(***************************************************************************)
EXTENDS Integers, Sequences, FiniteSets, TLC

VARIABLES
    pc,        \* [Requests -> position of the handler / background task]
    request,   \* [Requests -> PlaceExtractionRequest (contentId, snsUrl)]
    ack,       \* [Requests -> responses the handler returned (0 or 1)]
    state,     \* [Requests -> ExtractionState of the task]
    exc,       \* [Requests -> kind of the last exception raised, or "none"]
    acqCalls,  \* [Requests -> acquisition collaborators invoked, in order]
    payloads,  \* [Requests -> AiCallbackRequest objects constructed, in order]
    sendCalls, \* [Requests -> number of send_callback invocations]
    posts,     \* [Requests -> outcomes of the POSTs made, in order]
    sendRet,   \* [Requests -> values send_callback returned, in order]
    retval,    \* [Requests -> value the task returned (0 or 1)]
    escaped,   \* [Requests -> an exception left process_extraction_in_background]
    ollama,    \* one call of ollama_llm.extract_place_names_with_ollama
    video,     \* one call of video.extract_unique_subtitle_frames
    roi        \* one call of video.calculate_roi

\* the state of the pipeline, and the state of the calls followed on their own
pipelineVars == <<pc, request, ack, state, exc, acqCalls, payloads, sendCalls,
                  posts, sendRet, retval, escaped>>
leafVars == <<ollama, video, roi>>

vars == <<pc, request, ack, state, exc, acqCalls, payloads, sendCalls, posts,
          sendRet, retval, escaped, ollama, video, roi>>

-----------------------------------------------------------------------------
(* Bounds *)

NumReq == 1
MaxHostToks == 2
MaxSegs == 2
MaxPlaces == 1
NumInFlight == 2

Requests == 1..NumReq

\* the requests of the specification of concurrent requests
InFlight == 1..NumInFlight

-----------------------------------------------------------------------------
(* Strings as token sequences *)

\* s[lo..hi], empty when lo > hi
Slice(s, lo, hi) == IF lo > hi THEN <<>> ELSE SubSeq(s, lo, hi)

\* Python: needle in s
In(needle, s) ==
    \E i \in 1..(Len(s) + 1) :
        /\ i + Len(needle) - 1 <= Len(s)
        /\ Slice(s, i, i + Len(needle) - 1) = needle

\* str.lower() on one token
LowerTok(t) ==
    CASE t = "P" -> "p"
      [] t = "Reel" -> "reel"
      [] t = "YouTube.com" -> "youtube.com"
      [] OTHER -> t

\* str.lower()
Lower(s) == [i \in DOMAIN s |-> LowerTok(s[i])]

\* index of the first token of s that is in toks, Len(s)+1 when there is none
FirstIdx(s, toks) ==
    IF \E i \in DOMAIN s : s[i] \in toks
    THEN CHOOSE i \in DOMAIN s :
            /\ s[i] \in toks
            /\ \A j \in 1..(i - 1) : s[j] \notin toks
    ELSE Len(s) + 1

\* urllib.parse.urlparse: netloc is read only after "scheme://"
HasScheme(url) == Len(url) > 0 /\ url[1] = "https://"

AfterScheme(url) == IF HasScheme(url) THEN Tail(url) ELSE url

UrlNetloc(url) ==
    IF HasScheme(url)
    THEN Slice(AfterScheme(url), 1, FirstIdx(AfterScheme(url), {"/", "?"}) - 1)
    ELSE <<>>

AfterNetloc(url) ==
    IF HasScheme(url)
    THEN Slice(AfterScheme(url), FirstIdx(AfterScheme(url), {"/", "?"}),
               Len(AfterScheme(url)))
    ELSE url

UrlPath(url) == Slice(AfterNetloc(url), 1, FirstIdx(AfterNetloc(url), {"?"}) - 1)

UrlQuery(url) ==
    Slice(AfterNetloc(url), FirstIdx(AfterNetloc(url), {"?"}) + 1,
          Len(AfterNetloc(url)))

-----------------------------------------------------------------------------
(* URLs *)

UrlA        == <<"https://", "youtube.com", "/", "shorts", "/", "abc123">>
UrlB        == <<"https://", "instagram.com", "/", "p", "/", "XYZ">>
UrlReel     == <<"https://", "www.", "instagram.com", "/", "reel", "/", "XYZ", "/">>
UrlUnknown  == <<"https://", "example.com", "/", "p", "/", "XYZ">>
UrlNoMarker == <<"https://", "instagram.com", "/", "XYZ">>
UrlNoId     == <<"https://", "youtube.com", "/", "XYZ">>

\* the URLs a request of the pipeline specification carries
PipelineUrls == {UrlA, UrlB, UrlReel, UrlUnknown, UrlNoMarker, UrlNoId}

HostToks == {"www.", "youtube.com", "youtu.be", "instagram.com", "example.com",
             "YouTube.com"}
SegToks == {"p", "reel", "reels", "tv", "XYZ", "P", "Reel"}

SeqsUpTo(S, n) == UNION {[1..k -> S] : k \in 0..n}

\* "/seg/seg..." for a sequence of segments
RECURSIVE Slashed(_)
Slashed(segs) ==
    IF segs = <<>> THEN <<>> ELSE <<"/", Head(segs)>> \o Slashed(Tail(segs))

Hosts == SeqsUpTo(HostToks, MaxHostToks) \ {<<>>}
Paths == {Slashed(segs) \o tail :
            segs \in SeqsUpTo(SegToks, MaxSegs), tail \in {<<>>, <<"/">>}}
Queries == {<<>>, <<"?", "ref=", "youtube.com">>}

\* the URLs the router specification classifies
AllUrls == {scheme \o host \o path \o query :
              scheme \in {<<>>, <<"https://">>}, host \in Hosts,
              path \in Paths, query \in Queries}

-----------------------------------------------------------------------------
(* Values *)

None == <<>>
Some(x) == <<x>>

Captions == {"", "caption"}
Streams == {"None", "bytes"}
PlaceNames == {"place"}
PlaceLists == SeqsUpTo(PlaceNames, MaxPlaces)

\* Literal[...] of AiCallbackRequest.snsPlatform
SnsPlatformLiteral ==
    {"INSTAGRAM", "YOUTUBE", "YOUTUBE_SHORTS", "TIKTOK", "FACEBOOK", "TWITTER"}
ResultStatusLiteral == {"SUCCESS", "FAILED"}

\* str.upper() on the platform names the code upper-cases
Upper(p) ==
    CASE p = "youtube" -> "YOUTUBE"
      [] p = "instagram" -> "INSTAGRAM"
      [] OTHER -> p

\* ExtractionState(contentId=..., snsUrl=..., extractedData={}): every other
\* key is absent ("unset")
EmptyState ==
    [snsPlatform |-> "unset", contentType |-> "unset",
     contentStream |-> "unset", imageStream |-> "unset",
     captionText |-> "unset", audioStream |-> "unset",
     transcriptionText |-> "unset", ocrText |-> "unset",
     result |-> None]

\* dict.get(key, default)
Get(v, default) == IF v = "unset" THEN default ELSE v

-----------------------------------------------------------------------------
(* preprocess/sns.py: id extraction *)

\* extract_youtube_id raises (IndexError or ValueError) instead of returning
YoutubeIdRaises(url) ==
    LET path == UrlPath(url) IN
    IF In(<<"shorts">>, path) THEN ~In(<<"/", "shorts", "/">>, path)
    ELSE IF In(<<"watch">>, path) THEN FALSE
    ELSE UrlNetloc(url) # <<"youtu.be">>

\* extract_instagram_id raises ValueError: no prefix in the (case-sensitive) path
InstagramIdRaises(url) ==
    LET path == UrlPath(url) IN
    ~ ( \/ In(<<"/", "reel", "/">>, path)
        \/ In(<<"/", "reels", "/">>, path)
        \/ In(<<"/", "tv", "/">>, path)
        \/ In(<<"/", "p", "/">>, path) )

\* what get_youtube_content can return: every failure is caught inside it and
\* returned as (None, ""); an empty download returns (None, caption)
get_youtube_content(url) ==
    IF YoutubeIdRaises(url)
    THEN {[raised |-> FALSE, stream |-> "None", caption |-> ""]}
    ELSE {[raised |-> FALSE, stream |-> s, caption |-> c] :
            s \in Streams, c \in Captions}

\* what get_instagram_content_ytdlp can do: extract_instagram_id runs outside
\* its try block; everything after it returns (stream | None, caption)
get_instagram_content_ytdlp(url) ==
    IF InstagramIdRaises(url)
    THEN {[raised |-> TRUE, stream |-> "None", caption |-> ""]}
    ELSE {[raised |-> FALSE, stream |-> s, caption |-> c] :
            s \in Streams, c \in Captions}

-----------------------------------------------------------------------------
(* content_router.py *)

\* sns_router leaving the content type of a YouTube URL unset
SnsRouterClassify_YoutubeUntyped(url) ==
    LET domain == Lower(UrlNetloc(url))
        path   == Lower(UrlPath(url))
    IN  IF In(<<"youtube.com">>, domain) \/ In(<<"youtu.be">>, domain)
        THEN [raised |-> FALSE, snsPlatform |-> "youtube", contentType |-> "unset"]
        ELSE IF In(<<"instagram.com">>, domain)
        THEN [raised |-> FALSE, snsPlatform |-> "instagram",
              contentType |->
                IF In(<<"/", "p", "/">>, path) THEN "image"
                ELSE IF \/ In(<<"/", "reel", "/">>, path)
                        \/ In(<<"/", "reels", "/">>, path)
                        \/ In(<<"/", "tv", "/">>, path)
                     THEN "video"
                     ELSE "unset"]
        ELSE [raised |-> TRUE, snsPlatform |-> "unset", contentType |-> "unset"]

\* sns_router with the reel markers tested before the post marker
SnsRouterClassify_ReelFirst(url) ==
    LET domain == Lower(UrlNetloc(url))
        path   == Lower(UrlPath(url))
    IN  IF In(<<"youtube.com">>, domain) \/ In(<<"youtu.be">>, domain)
        THEN [raised |-> FALSE, snsPlatform |-> "youtube", contentType |-> "video"]
        ELSE IF In(<<"instagram.com">>, domain)
        THEN [raised |-> FALSE, snsPlatform |-> "instagram",
              contentType |->
                IF \/ In(<<"/", "reel", "/">>, path)
                   \/ In(<<"/", "reels", "/">>, path)
                   \/ In(<<"/", "tv", "/">>, path)
                THEN "video"
                ELSE IF In(<<"/", "p", "/">>, path) THEN "image" ELSE "unset"]
        ELSE [raised |-> TRUE, snsPlatform |-> "unset", contentType |-> "unset"]

\* the classification part of sns_router (lines 105-131)
SnsRouterClassify(url) ==
    LET domain == Lower(UrlNetloc(url))
        path   == Lower(UrlPath(url))
    IN  IF In(<<"youtube.com">>, domain) \/ In(<<"youtu.be">>, domain)
        THEN [raised |-> FALSE, snsPlatform |-> "youtube", contentType |-> "video"]
        ELSE IF In(<<"instagram.com">>, domain)
        THEN [raised |-> FALSE, snsPlatform |-> "instagram",
              contentType |->
                IF In(<<"/", "p", "/">>, path) THEN "image"
                ELSE IF \/ In(<<"/", "reel", "/">>, path)
                        \/ In(<<"/", "reels", "/">>, path)
                        \/ In(<<"/", "tv", "/">>, path)
                     THEN "video"
                     ELSE "unset"]
        ELSE [raised |-> TRUE, snsPlatform |-> "unset", contentType |-> "unset"]

\* type_router downloading for every Instagram record, whatever its type
TypeRouterCollaborator_AnyInstagram(st) ==
    IF st.snsPlatform = "youtube" THEN "get_youtube_content"
    ELSE IF st.snsPlatform = "instagram" THEN "get_instagram_content_ytdlp"
         ELSE "none"

\* the acquisition collaborator type_router dispatches to, "none" when it
\* raises before calling one
TypeRouterCollaborator(st) ==
    IF st.snsPlatform = "youtube" THEN "get_youtube_content"
    ELSE IF st.snsPlatform = "instagram" /\ st.contentType \in {"image", "video"}
         THEN "get_instagram_content_ytdlp"
         ELSE "none"

\* the results the collaborator type_router calls can produce
TypeRouterResults(st, url) ==
    IF TypeRouterCollaborator(st) = "get_youtube_content"
    THEN get_youtube_content(url)
    ELSE IF TypeRouterCollaborator(st) = "get_instagram_content_ytdlp"
         THEN get_instagram_content_ytdlp(url)
         ELSE {[raised |-> FALSE, stream |-> "None", caption |-> ""]}

\* the exception an acquisition collaborator lets out: the ValueError of
\* extract_instagram_id (sns.py line 62)
CollaboratorError == "ValueError"

\* type_router letting the collaborator's exception through
TypeRouterWraps_PassThrough(kind) == kind

\* the exception type_router raises for an exception raised under its try
\* (lines 61-63 and 84-88): a CustomError is passed on, anything else is
\* replaced by a CustomError carrying its message
TypeRouterWraps(kind) == IF kind = "CustomError" THEN kind ELSE "CustomError"

\* type_router, given the result res of the collaborator it called:
\* the exception it raises ("none" when it returns) and the state it leaves
type_router(st, res) ==
    IF st.snsPlatform = "youtube"
    THEN [exc |-> "none",
          st  |-> [st EXCEPT !.contentStream = res.stream,
                             !.captionText = res.caption]]
    ELSE IF st.snsPlatform = "instagram"
    THEN IF st.contentType = "image"
         THEN IF res.raised
              THEN [exc |-> TypeRouterWraps(CollaboratorError), st |-> st]
              ELSE [exc |-> "none",
                    st  |-> [st EXCEPT
                               !.imageStream =
                                   IF res.stream = "None" THEN "None" ELSE "list",
                               !.captionText = res.caption]]
         ELSE IF st.contentType = "video"
         THEN IF res.raised
              THEN [exc |-> TypeRouterWraps(CollaboratorError), st |-> st]
              ELSE [exc |-> "none",
                    st  |-> [st EXCEPT !.contentStream = res.stream,
                                       !.captionText = res.caption]]
         ELSE [exc |-> "CustomError", st |-> st]
    ELSE [exc |-> "CustomError", st |-> st]

-----------------------------------------------------------------------------
(* models/callback_request.py *)

\* AiCallbackRequest(...): None when validation raises, else the object the
\* validator validate_success_payload leaves
AiCallbackRequest(contentId, resultStatus, snsPlatform, contentInfo, places) ==
    IF \/ resultStatus \notin ResultStatusLiteral
       \/ snsPlatform \notin SnsPlatformLiteral
       \/ (resultStatus = "SUCCESS" /\ contentInfo = None)
    THEN None
    ELSE Some([contentId |-> contentId,
               resultStatus |-> resultStatus,
               snsPlatform |-> snsPlatform,
               contentInfo |-> contentInfo,
               places |-> IF resultStatus = "SUCCESS" THEN places ELSE <<>>])

-----------------------------------------------------------------------------
(* background_tasks.py: helpers *)

\* send_failed_callback reading the platform off the host, as sns_router does
FailedPlatformGuess_HostOnly(url) ==
    LET u == Lower(UrlNetloc(url)) IN
    IF In(<<"youtube.com">>, u) \/ In(<<"youtu.be">>, u) THEN "YOUTUBE"
    ELSE IF In(<<"instagram.com">>, u) THEN "INSTAGRAM"
    ELSE "INSTAGRAM"

\* the platform send_failed_callback reads off the URL (lines 78-87)
FailedPlatformGuess(url) ==
    LET u == Lower(url) IN
    IF In(<<"youtube.com">>, u) \/ In(<<"youtu.be">>, u) THEN "YOUTUBE"
    ELSE IF In(<<"instagram.com">>, u) THEN "INSTAGRAM"
    ELSE "INSTAGRAM"

\* send_failed_callback filling contentInfo in
FailedPayload_WithContentInfo(req) ==
    AiCallbackRequest(req.contentId, "FAILED", FailedPlatformGuess(req.snsUrl),
                      Some([contentId |-> req.contentId, summary |-> ""]), <<>>)

\* the payload send_failed_callback constructs (lines 90-96)
FailedPayload(req) ==
    AiCallbackRequest(req.contentId, "FAILED", FailedPlatformGuess(req.snsUrl),
                      None, <<>>)

\* send_callback catching the timeout only
SendCallbackCatches_TimeoutOnly(kind) == kind = "TimeoutException"

\* the except clauses of send_callback (lines 64-69) catch the exception
SendCallbackCatches(kind) ==
    kind = "TimeoutException" \/ kind \in {"ConnectError", "Error"}

\* send_callback accepting status 200 only
StatusIsSuccess_Only200(status) == status = 200

\* the value send_callback returns for a response status (line 56)
StatusIsSuccess(status) == 200 <= status /\ status < 300

\* the exception classes of the model, all subclasses of Exception
ExceptionKinds ==
    {"CustomError", "ValueError", "KeyError", "TimeoutException", "ConnectError",
     "Error"}

\* the task catching its own domain error only
TaskCatches_CustomErrorOnly(kind) == kind = "CustomError"

\* the except clause of process_extraction_in_background (line 193):
\* except Exception
TaskCatches(kind) == kind \in ExceptionKinds

\* what the POST of send_callback can end in: a response with a status, a
\* timeout, a connection failure, any other exception
Statuses == {199, 200, 204, 299, 300, 500}
HttpOutcomes ==
    {[kind |-> "response", status |-> s] : s \in Statuses}
    \cup {[kind |-> k, status |-> 0] :
            k \in {"TimeoutException", "ConnectError", "Error"}}

\* the body extract_places returns (place_router.py lines 67-70)
AckResponse == [received |-> TRUE, message |-> "Processing started"]

\* run_media_workflow deriving audio for every content type
WorkflowNext_AudioFirst(stage, st) ==
    CASE stage = "acquire" -> "audio"
      [] stage = "audio" -> "stt"
      [] stage = "stt" -> "narration"
      [] stage = "narration" -> "llm"
      [] stage = "llm" -> "meta"

\* run_media_workflow: the stage that follows a stage that returned
WorkflowNext(stage, st) ==
    CASE stage = "acquire" -> IF st.contentType = "video" THEN "audio" ELSE "llm"
      [] stage = "audio" -> "stt"
      [] stage = "stt" -> "narration"
      [] stage = "narration" -> "llm"
      [] stage = "llm" -> "meta"

-----------------------------------------------------------------------------
(* modules/ollama_llm.py: extract_place_names_with_ollama *)

MaxRetries == 3
MaxCaptionToks == 2

\* the captions a call is given: runs of whitespace (" ") and of text
OllamaCaptions == SeqsUpTo({" ", "text"}, MaxCaptionToks)

\* str.strip()
RECURSIVE StripLeft(_)
StripLeft(s) == IF s # <<>> /\ Head(s) = " " THEN StripLeft(Tail(s)) ELSE s

RECURSIVE StripRight(_)
StripRight(s) ==
    IF s # <<>> /\ s[Len(s)] = " " THEN StripRight(Slice(s, 1, Len(s) - 1)) ELSE s

Strip(s) == StripRight(StripLeft(s))

\* the early-return test without the strip
IsBlankCaption_NoStrip(caption) == caption = <<>>

\* line 116: not caption or not caption.strip()
IsBlankCaption(caption) == caption = <<>> \/ Strip(caption) = <<>>

\* OllamaPlaceResult(place_names=..., has_places=...)
OllamaPlaceResult(place_names, has_places) ==
    [place_names |-> place_names, has_places |-> has_places]

\* lines 118 and 193: the explicit empty result
EmptyPlaceResult == OllamaPlaceResult(<<>>, FALSE)

\* what one pass through the body of the retry loop can meet:
\*   CustomError      http_post_json raised the domain error
\*   Exception        http_post_json raised anything else (network failure)
\*   no_content       the response has no message.content (lines 155-158)
\*   JSONDecodeError  the content is not JSON (line 162)
\*   AttributeError   the content is JSON but no object (line 163)
\*   ValidationError  place_names is no list of strings (line 166)
\*   ok               the content is an object with a list of names
OllamaFailures ==
    {"CustomError", "Exception", "no_content", "JSONDecodeError",
     "AttributeError", "ValidationError"}
\* has_places is the value the backend's JSON carries under that key
OllamaOutcomes ==
    {[kind |-> k, places |-> <<>>, has_places |-> FALSE] : k \in OllamaFailures}
    \cup {[kind |-> "ok", places |-> p, has_places |-> b] :
            p \in PlaceLists, b \in BOOLEAN}

\* the result taking has_places from the backend's answer
OllamaSuccessResult_TrustBackend(o) == OllamaPlaceResult(o.places, o.has_places)

\* lines 163-169: the result of an attempt whose content parsed; has_places
\* is computed from the length of place_names
OllamaSuccessResult(o) == OllamaPlaceResult(o.places, Len(o.places) > 0)

\* the outer handlers catching the domain error only
OllamaCatches_CustomErrorOnly(kind) == kind \in {"CustomError", "JSONDecodeError"}

\* the handlers of the loop body catch the exception: except
\* json.JSONDecodeError (line 174), except CustomError (line 179), except
\* Exception (line 184)
OllamaCatches(kind) ==
    \/ kind = "JSONDecodeError"
    \/ kind = "CustomError"
    \/ kind \in {"Exception", "AttributeError", "ValidationError"}

\* no call in progress
OllamaIdle ==
    [pc |-> "idle", caption |-> <<>>, max_retries |-> 0, attempt |-> 0,
     calls |-> 0, errors |-> <<>>, result |-> None]

-----------------------------------------------------------------------------
(* preprocess/video.py: calculate_roi, extract_unique_subtitle_frames *)

MaxWidth == 3
MaxHeight == 30
MaxFrames == 3

\* ROI_Y_START_PERCENT = 0.60 and ROI_HEIGHT_PERCENT = 0.40, in hundredths
ROI_Y_START_PERCENT == 60
ROI_HEIGHT_PERCENT == 40
SAMPLE_FPS == 2
HASH_THRESHOLD == 10
\* the default of the parameter hash_threshold (line 116)
DefaultHashThreshold == 5

\* the frame sizes a call is given; 1080 x 1920 is the portrait video
Widths == (1..MaxWidth) \cup {1080}
Heights == (1..MaxHeight) \cup {1920}

\* int(video_height * percent) for a percentage given in hundredths.  For
\* the two percentages the code passes, 0.60 and 0.40, the exact product is
\* an integer or at least 1/5 away from one, and the rounding of the double
\* product never crosses an integer: int() yields the exact quotient
\* (height * 60) / 100, (height * 40) / 100 truncated toward zero.
IntOfProduct(n, hundredths) ==
    IF n >= 0 THEN (n * hundredths) \div 100 ELSE -(((-n) * hundredths) \div 100)

\* round(video_height * percent) in the place of int(...)
calculate_roi_coordinates_Rounded(video_width, video_height, y_start_percent, height_percent) ==
    <<0, (video_height * y_start_percent + 50) \div 100, video_width,
      (video_height * height_percent + 50) \div 100>>

\* calculate_roi_coordinates (lines 104-109): (roi_x, roi_y, roi_w, roi_h)
calculate_roi_coordinates(video_width, video_height, y_start_percent, height_percent) ==
    <<0, IntOfProduct(video_height, y_start_percent), video_width,
      IntOfProduct(video_height, height_percent)>>

\* calculate_roi (lines 209-215)
calculate_roi(video_width, video_height) ==
    calculate_roi_coordinates(video_width, video_height, ROI_Y_START_PERCENT,
                              ROI_HEIGHT_PERCENT)

\* no call in progress
RoiIdle == [pc |-> "idle", width |-> 0, height |-> 0, rect |-> <<0, 0, 0, 0>>]

\* A perceptual hash (imagehash.phash) is the set of its bits that are set.
\* The hashes of the model are the ones with the first k bits set: their
\* distances (1, 4, 5, 6, 10, 11) lie on both sides of both thresholds.
HashWeights == {0, 5, 6, 10, 11}
Hashes == {1..k : k \in HashWeights}

\* ImageHash.__sub__: the number of bits in which two hashes differ
HashDistance(a, b) == Cardinality((a \ b) \cup (b \ a))

\* a PNG sample of pass 1: decodable with a hash, or corrupt (Image.open or
\* phash raises)
RoiSamples ==
    {[ok |-> TRUE, hash |-> h] : h \in Hashes} \cup {[ok |-> FALSE, hash |-> {}]}

\* the thresholds a call is given: 0 (every difference is a change), the
\* parameter's default and the one extract_unique_frames passes
HashThresholds == {0, DefaultHashThreshold, HASH_THRESHOLD}

\* i // sample_fps in the place of i / sample_fps
Timestamp_FloorDiv(i, sample_fps) == [num |-> i \div sample_fps, den |-> 1]

\* line 156: current_time = i / sample_fps, kept as the fraction it is
Timestamp(i, sample_fps) == [num |-> i, den |-> sample_fps]

\* the change test with >= in the place of >
IsChangePoint_AtThreshold(last_hash, current_hash, hash_threshold) ==
    last_hash = None \/ HashDistance(current_hash, last_hash[1]) >= hash_threshold

\* line 163: last_hash is None or (current_hash - last_hash) > hash_threshold
IsChangePoint(last_hash, current_hash, hash_threshold) ==
    last_hash = None \/ HashDistance(current_hash, last_hash[1]) > hash_threshold

\* what the second ffmpeg run and the verification of pass 2 can give
\* (lines 186-198): no bytes, bytes that are no valid image, a valid frame
FrameOutcomes == {"empty", "invalid", "valid"}

\* no call in progress
VideoIdle ==
    [pc |-> "idle", roi_frames |-> <<>>, sample_fps |-> SAMPLE_FPS,
     hash_threshold |-> HASH_THRESHOLD, i |-> 0, last_hash |-> None,
     unique_timestamps |-> <<>>, t |-> 1, final_frames |-> <<>>]

-----------------------------------------------------------------------------
(* Initial state: no request received *)

Init ==
    /\ pc = [r \in Requests |-> "none"]
    /\ request = [r \in Requests |-> [contentId |-> r, snsUrl |-> <<>>]]
    /\ ack = [r \in Requests |-> <<>>]
    /\ state = [r \in Requests |-> EmptyState]
    /\ exc = [r \in Requests |-> "none"]
    /\ acqCalls = [r \in Requests |-> <<>>]
    /\ payloads = [r \in Requests |-> <<>>]
    /\ sendCalls = [r \in Requests |-> 0]
    /\ posts = [r \in Requests |-> <<>>]
    /\ sendRet = [r \in Requests |-> <<>>]
    /\ retval = [r \in Requests |-> None]
    /\ escaped = [r \in Requests |-> FALSE]
    /\ ollama = OllamaIdle
    /\ video = VideoIdle
    /\ roi = RoiIdle

\* a failed stage sending the task back to acquisition for another try
Raise_Retry(r, kind) ==
    /\ exc' = [exc EXCEPT ![r] = kind]
    /\ pc' = [pc EXCEPT ![r] = "acquire"]

\* a stage of request r raised kind: control goes to the except clause
Raise(r, kind) ==
    /\ exc' = [exc EXCEPT ![r] = kind]
    /\ pc' = [pc EXCEPT ![r] = "except"]

-----------------------------------------------------------------------------
(* place_router.py *)

\* extract_places starting the pipeline and returning nothing before it ends
extract_places_Awaiting(r) ==
    /\ pc[r] = "none"
    /\ \E url \in PipelineUrls :
          request' = [request EXCEPT ![r] = [contentId |-> r, snsUrl |-> url]]
    /\ pc' = [pc EXCEPT ![r] = "scheduled"]
    /\ UNCHANGED <<ack, state, exc, acqCalls, payloads, sendCalls, posts, sendRet,
                   retval, escaped>>
    /\ UNCHANGED leafVars

\* extract_places admitting a request only while no pipeline is in flight
extract_places_Capped(r) ==
    /\ \A q \in DOMAIN pc : q # r => pc[q] \in {"none", "returned", "crashed"}
    /\ pc[r] = "none"
    /\ \E url \in PipelineUrls :
          request' = [request EXCEPT ![r] = [contentId |-> r, snsUrl |-> url]]
    /\ pc' = [pc EXCEPT ![r] = "scheduled"]
    /\ ack' = [ack EXCEPT ![r] = Append(@, AckResponse)]
    /\ UNCHANGED <<state, exc, acqCalls, payloads, sendCalls, posts, sendRet,
                   retval, escaped>>
    /\ UNCHANGED leafVars

\* extract_places: create the background task, return the acknowledgement
extract_places(r) ==
    /\ pc[r] = "none"
    /\ \E url \in PipelineUrls :
          request' = [request EXCEPT ![r] = [contentId |-> r, snsUrl |-> url]]
    /\ pc' = [pc EXCEPT ![r] = "scheduled"]
    /\ ack' = [ack EXCEPT ![r] = Append(@, AckResponse)]
    /\ UNCHANGED <<state, exc, acqCalls, payloads, sendCalls, posts, sendRet,
                   retval, escaped>>
    /\ UNCHANGED leafVars

-----------------------------------------------------------------------------
(* background_tasks.py: process_extraction_in_background, stage by stage *)

\* the task re-initialising one record that every task uses
StartTask_SharedState(r) ==
    /\ pc[r] = "scheduled"
    /\ state' = [q \in DOMAIN state |-> EmptyState]
    /\ pc' = [pc EXCEPT ![r] = "acquire"]
    /\ UNCHANGED <<request, ack, exc, acqCalls, payloads, sendCalls, posts,
                   sendRet, retval, escaped>>
    /\ UNCHANGED leafVars

\* lines 108-119: the task starts, builds its ExtractionState and enters
\* run_media_workflow
StartTask(r) ==
    /\ pc[r] = "scheduled"
    /\ state' = [state EXCEPT ![r] = EmptyState]
    /\ pc' = [pc EXCEPT ![r] = "acquire"]
    /\ UNCHANGED <<request, ack, exc, acqCalls, payloads, sendCalls, posts,
                   sendRet, retval, escaped>>
    /\ UNCHANGED leafVars

\* content_router.sns_router: classify, then type_router
sns_router(r) ==
    /\ pc[r] = "acquire"
    /\ LET url == request[r].snsUrl
           cls == SnsRouterClassify(url)
           st1 == [state[r] EXCEPT !.snsPlatform = cls.snsPlatform,
                                   !.contentType = cls.contentType]
       IN  IF cls.raised
           THEN /\ Raise(r, "CustomError")
                /\ UNCHANGED <<state, acqCalls>>
           ELSE \E res \in TypeRouterResults(st1, url) :
                  LET out == type_router(st1, res) IN
                  /\ state' = [state EXCEPT ![r] = out.st]
                  /\ acqCalls' =
                       [acqCalls EXCEPT ![r] =
                          IF TypeRouterCollaborator(st1) = "none" THEN @
                          ELSE Append(@, TypeRouterCollaborator(st1))]
                  /\ IF out.exc # "none"
                     THEN Raise(r, out.exc)
                     ELSE /\ pc' = [pc EXCEPT ![r] = WorkflowNext("acquire", out.st)]
                          /\ UNCHANGED exc
    /\ UNCHANGED <<request, ack, payloads, sendCalls, posts, sendRet, retval,
                   escaped>>
    /\ UNCHANGED leafVars

\* preprocess/audio.get_audio
get_audio(r) ==
    /\ pc[r] = "audio"
    /\ IF state[r].contentStream = "unset"
       THEN Raise(r, "KeyError") /\ UNCHANGED state
       ELSE IF state[r].contentStream = "None"
       THEN Raise(r, "CustomError") /\ UNCHANGED state
       ELSE \E ok \in BOOLEAN :
              IF ok
              THEN /\ state' = [state EXCEPT ![r].audioStream = "bytes"]
                   /\ pc' = [pc EXCEPT ![r] = WorkflowNext("audio", state[r])]
                   /\ UNCHANGED exc
              ELSE Raise(r, "CustomError") /\ UNCHANGED state
    /\ UNCHANGED <<request, ack, acqCalls, payloads, sendCalls, posts, sendRet,
                   retval, escaped>>
    /\ UNCHANGED leafVars

\* modules/stt.get_transcription
get_transcription(r) ==
    /\ pc[r] = "stt"
    /\ IF state[r].audioStream = "unset"
       THEN Raise(r, "KeyError") /\ UNCHANGED state
       ELSE \E out \in {"ok", "CustomError", "Error"} :
              IF out = "ok"
              THEN /\ state' = [state EXCEPT ![r].transcriptionText = "speech"]
                   /\ pc' = [pc EXCEPT ![r] = WorkflowNext("stt", state[r])]
                   /\ UNCHANGED exc
              ELSE Raise(r, out) /\ UNCHANGED state
    /\ UNCHANGED <<request, ack, acqCalls, payloads, sendCalls, posts, sendRet,
                   retval, escaped>>
    /\ UNCHANGED leafVars

\* preprocess/video.get_video_narration
get_video_narration(r) ==
    /\ pc[r] = "narration"
    /\ IF state[r].contentStream = "unset"
       THEN Raise(r, "KeyError") /\ UNCHANGED state
       ELSE \E dims \in {"None", "dims"} :
              IF dims = "None"
              THEN Raise(r, "CustomError") /\ UNCHANGED state
              ELSE /\ state' = [state EXCEPT ![r].ocrText = ""]
                   /\ pc' = [pc EXCEPT ![r] = WorkflowNext("narration", state[r])]
                   /\ UNCHANGED exc
    /\ UNCHANGED <<request, ack, acqCalls, payloads, sendCalls, posts, sendRet,
                   retval, escaped>>
    /\ UNCHANGED leafVars

\* modules/llm.get_llm_response: single attempt, any failure propagates
get_llm_response(r) ==
    /\ pc[r] = "llm"
    /\ \/ Raise(r, "Error") /\ UNCHANGED state
       \/ \E places \in PlaceLists :
            /\ state' = [state EXCEPT ![r].result = Some(places)]
            /\ pc' = [pc EXCEPT ![r] = WorkflowNext("llm", state[r])]
            /\ UNCHANGED exc
    /\ UNCHANGED <<request, ack, acqCalls, payloads, sendCalls, posts, sendRet,
                   retval, escaped>>
    /\ UNCHANGED leafVars

\* lines 124-131: extract_youtube_metadata / extract_instagram_metadata
ExtractMetadata(r) ==
    /\ pc[r] = "meta"
    /\ IF state[r].snsPlatform = "youtube" /\ YoutubeIdRaises(request[r].snsUrl)
       THEN Raise(r, "ValueError")
       ELSE pc' = [pc EXCEPT ![r] = "build"] /\ UNCHANGED exc
    /\ UNCHANGED <<request, ack, state, acqCalls, payloads, sendCalls, posts,
                   sendRet, retval, escaped>>
    /\ UNCHANGED leafVars

\* the SUCCESS payload built without the extracted places
SuccessPayload_NoPlaces(req, st) ==
    AiCallbackRequest(req.contentId, "SUCCESS",
                      Upper(Get(st.snsPlatform, "UNKNOWN")),
                      Some([contentId |-> req.contentId,
                            summary |-> Get(st.captionText, "")]),
                      <<>>)

\* the SUCCESS payload built with the default platform of the FAILED payload
SuccessPayload_DefaultPlatform(req, st) ==
    AiCallbackRequest(req.contentId, "SUCCESS", "INSTAGRAM",
                      Some([contentId |-> req.contentId,
                            summary |-> Get(st.captionText, "")]),
                      st.result[1])

\* lines 138-177: the SUCCESS payload
SuccessPayload(req, st) ==
    AiCallbackRequest(req.contentId, "SUCCESS",
                      Upper(Get(st.snsPlatform, "UNKNOWN")),
                      Some([contentId |-> req.contentId,
                            summary |-> Get(st.captionText, "")]),
                      st.result[1])

BuildSuccessPayload(r) ==
    /\ pc[r] = "build"
    /\ \E valid \in BOOLEAN :
         LET payload == SuccessPayload(request[r], state[r]) IN
         IF ~valid \/ payload = None
         THEN Raise(r, "Error") /\ UNCHANGED payloads
         ELSE /\ payloads' = [payloads EXCEPT ![r] = Append(@, payload[1])]
              /\ pc' = [pc EXCEPT ![r] = "send_success"]
              /\ UNCHANGED exc
    /\ UNCHANGED <<request, ack, state, acqCalls, sendCalls, posts, sendRet,
                   retval, escaped>>
    /\ UNCHANGED leafVars

\* lines 193-197 and send_failed_callback lines 78-96: the except clause.
\* An exception the clause does not catch, or one raised inside it, leaves
\* the task.
HandleException(r) ==
    /\ pc[r] = "except"
    /\ IF TaskCatches(exc[r]) /\ FailedPayload(request[r]) # None
       THEN /\ payloads' = [payloads EXCEPT ![r] = @ \o FailedPayload(request[r])]
            /\ pc' = [pc EXCEPT ![r] = "send_failed"]
            /\ UNCHANGED <<exc, escaped>>
       ELSE /\ escaped' = [escaped EXCEPT ![r] = TRUE]
            /\ pc' = [pc EXCEPT ![r] = "crashed"]
            /\ UNCHANGED <<payloads, exc>>
    /\ UNCHANGED <<request, ack, state, acqCalls, sendCalls, posts, sendRet,
                   retval>>
    /\ UNCHANGED leafVars

\* the task returning the outcome of its delivery on both paths
TaskReturn_DeliveryOutcome(path, callback_success) == callback_success

\* lines 189-191 and 197-200: what the task returns after its delivery.  On
\* the SUCCESS path it is what send_callback returned; send_failed_callback
\* drops what send_callback returned (line 99) and the task returns False
\* (line 200).
TaskReturn(path, callback_success) ==
    IF path = "send_success" THEN callback_success ELSE FALSE

\* send_callback, and the return of the task that follows it (lines 189-191
\* on the SUCCESS path, lines 99 and 200 on the FAILED path)
send_callback(r) ==
    /\ pc[r] \in {"send_success", "send_failed"}
    /\ \E o \in HttpOutcomes :
         /\ sendCalls' = [sendCalls EXCEPT ![r] = @ + 1]
         /\ posts' = [posts EXCEPT ![r] = Append(@, o)]
         /\ IF o.kind = "response" \/ SendCallbackCatches(o.kind)
            THEN LET ret == o.kind = "response" /\ StatusIsSuccess(o.status) IN
                 /\ sendRet' = [sendRet EXCEPT ![r] = Append(@, ret)]
                 /\ retval' = [retval EXCEPT ![r] = Some(TaskReturn(pc[r], ret))]
                 /\ pc' = [pc EXCEPT ![r] = "returned"]
                 /\ UNCHANGED <<exc, escaped>>
            ELSE IF pc[r] = "send_success"
                 THEN /\ Raise(r, o.kind)
                      /\ UNCHANGED <<sendRet, retval, escaped>>
                 ELSE /\ escaped' = [escaped EXCEPT ![r] = TRUE]
                      /\ pc' = [pc EXCEPT ![r] = "crashed"]
                      /\ UNCHANGED <<sendRet, retval, exc>>
    /\ UNCHANGED <<request, ack, state, acqCalls, payloads>>
    /\ UNCHANGED leafVars

-----------------------------------------------------------------------------
(* The pipeline specification *)

Next ==
    \E r \in Requests :
        \/ extract_places(r)
        \/ StartTask(r)
        \/ sns_router(r)
        \/ get_audio(r)
        \/ get_transcription(r)
        \/ get_video_narration(r)
        \/ get_llm_response(r)
        \/ ExtractMetadata(r)
        \/ BuildSuccessPayload(r)
        \/ HandleException(r)
        \/ send_callback(r)

Spec == Init /\ [][Next]_vars

-----------------------------------------------------------------------------
(* The pipeline specification with fairness.  asyncio.create_task hands the
   task to the event loop, which runs a task whenever it can take a step,
   and every collaborator call is taken to return or raise: a task that can
   take a step eventually takes one.  Nothing obliges a request to arrive. *)

\* one step of the background task of request r
TaskStep(r) ==
    \/ StartTask(r)
    \/ sns_router(r)
    \/ get_audio(r)
    \/ get_transcription(r)
    \/ get_video_narration(r)
    \/ get_llm_response(r)
    \/ ExtractMetadata(r)
    \/ BuildSuccessPayload(r)
    \/ HandleException(r)
    \/ send_callback(r)

SpecLive ==
    /\ Init
    /\ [][Next]_vars
    /\ \A r \in Requests : WF_vars(TaskStep(r))

-----------------------------------------------------------------------------
(* The router specification: sns_router applied to every URL of AllUrls *)

InitRouter ==
    /\ pc = [r \in Requests |-> IF r = 1 THEN "acquire" ELSE "none"]
    /\ \E url \in AllUrls :
         request = [r \in Requests |->
                      [contentId |-> r, snsUrl |-> IF r = 1 THEN url ELSE <<>>]]
    /\ ack = [r \in Requests |-> IF r = 1 THEN <<AckResponse>> ELSE <<>>]
    /\ state = [r \in Requests |-> EmptyState]
    /\ exc = [r \in Requests |-> "none"]
    /\ acqCalls = [r \in Requests |-> <<>>]
    /\ payloads = [r \in Requests |-> <<>>]
    /\ sendCalls = [r \in Requests |-> 0]
    /\ posts = [r \in Requests |-> <<>>]
    /\ sendRet = [r \in Requests |-> <<>>]
    /\ retval = [r \in Requests |-> None]
    /\ escaped = [r \in Requests |-> FALSE]
    /\ ollama = OllamaIdle
    /\ video = VideoIdle
    /\ roi = RoiIdle

NextRouter == \E r \in Requests : sns_router(r)

SpecRouter == InitRouter /\ [][NextRouter]_vars

-----------------------------------------------------------------------------
(* The specification of failing pipelines: the task of a request with any
   URL of AllUrls, from the router to the payload it constructs *)

NextFailed ==
    \E r \in Requests :
        \/ sns_router(r)
        \/ get_audio(r)
        \/ get_transcription(r)
        \/ get_video_narration(r)
        \/ get_llm_response(r)
        \/ ExtractMetadata(r)
        \/ BuildSuccessPayload(r)
        \/ HandleException(r)

SpecFailed == InitRouter /\ [][NextFailed]_vars

-----------------------------------------------------------------------------
(* The specification of concurrent requests: NumInFlight requests, each with
   its own task, their steps interleaved in every order *)

InitConcurrent ==
    /\ pc = [r \in InFlight |-> "none"]
    /\ request = [r \in InFlight |-> [contentId |-> r, snsUrl |-> <<>>]]
    /\ ack = [r \in InFlight |-> <<>>]
    /\ state = [r \in InFlight |-> EmptyState]
    /\ exc = [r \in InFlight |-> "none"]
    /\ acqCalls = [r \in InFlight |-> <<>>]
    /\ payloads = [r \in InFlight |-> <<>>]
    /\ sendCalls = [r \in InFlight |-> 0]
    /\ posts = [r \in InFlight |-> <<>>]
    /\ sendRet = [r \in InFlight |-> <<>>]
    /\ retval = [r \in InFlight |-> None]
    /\ escaped = [r \in InFlight |-> FALSE]
    /\ ollama = OllamaIdle
    /\ video = VideoIdle
    /\ roi = RoiIdle

NextConcurrent ==
    \E r \in InFlight :
        \/ extract_places(r)
        \/ StartTask(r)
        \/ sns_router(r)
        \/ get_audio(r)
        \/ get_transcription(r)
        \/ get_video_narration(r)
        \/ get_llm_response(r)
        \/ ExtractMetadata(r)
        \/ BuildSuccessPayload(r)
        \/ HandleException(r)
        \/ send_callback(r)

SpecConcurrent == InitConcurrent /\ [][NextConcurrent]_vars

-----------------------------------------------------------------------------
(* modules/ollama_llm.py: one call of extract_place_names_with_ollama *)

\* lines 116-139: the early return on a blank caption, else the loop is
\* entered
extract_place_names_with_ollama ==
    /\ ollama.pc = "idle"
    /\ \E caption \in OllamaCaptions, max_retries \in 0..MaxRetries :
         IF IsBlankCaption(caption)
         THEN ollama' = [ollama EXCEPT !.pc = "returned",
                                       !.caption = caption,
                                       !.max_retries = max_retries,
                                       !.result = Some(EmptyPlaceResult)]
         ELSE ollama' = [ollama EXCEPT !.pc = "loop",
                                       !.caption = caption,
                                       !.max_retries = max_retries,
                                       !.attempt = 1]
    /\ UNCHANGED <<pipelineVars, video, roi>>

\* lines 141-187: one pass through the loop body, one backend call
ollama_attempt ==
    /\ ollama.pc = "loop"
    /\ ollama.attempt <= ollama.max_retries
    /\ \E o \in OllamaOutcomes :
         IF o.kind = "ok"
         THEN ollama' = [ollama EXCEPT
                           !.pc = "returned",
                           !.calls = @ + 1,
                           !.result = Some(OllamaSuccessResult(o))]
         ELSE IF o.kind = "no_content" \/ OllamaCatches(o.kind)
         THEN ollama' = [ollama EXCEPT !.calls = @ + 1,
                                       !.errors = Append(@, o.kind),
                                       !.attempt = @ + 1]
         ELSE ollama' = [ollama EXCEPT !.pc = "raised",
                                       !.calls = @ + 1,
                                       !.errors = Append(@, o.kind)]
    /\ UNCHANGED <<pipelineVars, video, roi>>

\* lines 189-193: the loop ran out, the empty result is returned
ollama_exhausted ==
    /\ ollama.pc = "loop"
    /\ ollama.attempt > ollama.max_retries
    /\ ollama' = [ollama EXCEPT !.pc = "returned",
                                !.result = Some(EmptyPlaceResult)]
    /\ UNCHANGED <<pipelineVars, video, roi>>

NextOllama ==
    \/ extract_place_names_with_ollama
    \/ ollama_attempt
    \/ ollama_exhausted

SpecOllama == Init /\ [][NextOllama]_vars

-----------------------------------------------------------------------------
(* preprocess/video.py: one call of calculate_roi *)

CalculateRoi ==
    /\ roi.pc = "idle"
    /\ \E video_width \in Widths, video_height \in Heights :
         roi' = [pc |-> "returned", width |-> video_width,
                 height |-> video_height,
                 rect |-> calculate_roi(video_width, video_height)]
    /\ UNCHANGED <<pipelineVars, ollama, video>>

NextRoi == CalculateRoi

SpecRoi == Init /\ [][NextRoi]_vars

-----------------------------------------------------------------------------
(* preprocess/video.py: one call of extract_unique_subtitle_frames *)

\* lines 130-153: the first ffmpeg run delivers the cropped samples
extract_unique_subtitle_frames ==
    /\ video.pc = "idle"
    /\ \E roi_frames \in SeqsUpTo(RoiSamples, MaxFrames),
          hash_threshold \in HashThresholds :
         video' = [video EXCEPT !.pc = "pass1",
                                !.roi_frames = roi_frames,
                                !.hash_threshold = hash_threshold]
    /\ UNCHANGED <<pipelineVars, ollama, roi>>

\* pass 1 taking every decodable sample as the next reference, so that a
\* sample is compared with the sample before it
Pass1Step_ComparePrevious ==
    /\ video.pc = "pass1"
    /\ video.i < Len(video.roi_frames)
    /\ LET frame == video.roi_frames[video.i + 1]
           current_time == Timestamp(video.i, video.sample_fps)
       IN  IF frame.ok /\ IsChangePoint(video.last_hash, frame.hash,
                                        video.hash_threshold)
           THEN video' = [video EXCEPT
                            !.unique_timestamps = Append(@, current_time),
                            !.last_hash = Some(frame.hash),
                            !.i = @ + 1]
           ELSE IF frame.ok
           THEN video' = [video EXCEPT !.last_hash = Some(frame.hash),
                                       !.i = @ + 1]
           ELSE video' = [video EXCEPT !.i = @ + 1]
    /\ UNCHANGED <<pipelineVars, ollama, roi>>

\* pass 1 ending at the first sample that cannot be decoded
Pass1Step_AbortOnCorrupt ==
    /\ video.pc = "pass1"
    /\ video.i < Len(video.roi_frames)
    /\ LET frame == video.roi_frames[video.i + 1]
           current_time == Timestamp(video.i, video.sample_fps)
       IN  IF frame.ok /\ IsChangePoint(video.last_hash, frame.hash,
                                        video.hash_threshold)
           THEN video' = [video EXCEPT
                            !.unique_timestamps = Append(@, current_time),
                            !.last_hash = Some(frame.hash),
                            !.i = @ + 1]
           ELSE IF frame.ok
           THEN video' = [video EXCEPT !.i = @ + 1]
           ELSE video' = [video EXCEPT !.i = Len(video.roi_frames)]
    /\ UNCHANGED <<pipelineVars, ollama, roi>>

\* lines 155-168: one iteration of pass 1 (i counts from 0)
Pass1Step ==
    /\ video.pc = "pass1"
    /\ video.i < Len(video.roi_frames)
    /\ LET frame == video.roi_frames[video.i + 1]
           current_time == Timestamp(video.i, video.sample_fps)
       IN  IF frame.ok /\ IsChangePoint(video.last_hash, frame.hash,
                                        video.hash_threshold)
           THEN video' = [video EXCEPT
                            !.unique_timestamps = Append(@, current_time),
                            !.last_hash = Some(frame.hash),
                            !.i = @ + 1]
           ELSE video' = [video EXCEPT !.i = @ + 1]
    /\ UNCHANGED <<pipelineVars, ollama, roi>>

\* lines 170-178: pass 1 is over; without change points [] is returned
Pass1Done ==
    /\ video.pc = "pass1"
    /\ video.i = Len(video.roi_frames)
    /\ IF video.unique_timestamps = <<>>
       THEN video' = [video EXCEPT !.pc = "returned"]
       ELSE video' = [video EXCEPT !.pc = "pass2"]
    /\ UNCHANGED <<pipelineVars, ollama, roi>>

\* pass 2 giving up at the first frame that is empty or fails verification
Pass2Step_AbortOnInvalid ==
    /\ video.pc = "pass2"
    /\ video.t <= Len(video.unique_timestamps)
    /\ \E frame_bytes \in FrameOutcomes :
         IF frame_bytes = "valid"
         THEN video' = [video EXCEPT
                          !.final_frames =
                              Append(@, [t |-> video.unique_timestamps[video.t],
                                         frame |-> "full"]),
                          !.t = @ + 1]
         ELSE video' = [video EXCEPT !.pc = "returned", !.t = @ + 1]
    /\ UNCHANGED <<pipelineVars, ollama, roi>>

\* lines 179-198: one iteration of pass 2, the full frame at one change point
Pass2Step ==
    /\ video.pc = "pass2"
    /\ video.t <= Len(video.unique_timestamps)
    /\ \E frame_bytes \in FrameOutcomes :
         IF frame_bytes = "valid"
         THEN video' = [video EXCEPT
                          !.final_frames =
                              Append(@, [t |-> video.unique_timestamps[video.t],
                                         frame |-> "full"]),
                          !.t = @ + 1]
         ELSE video' = [video EXCEPT !.t = @ + 1]
    /\ UNCHANGED <<pipelineVars, ollama, roi>>

\* line 200: return final_frames
ReturnFrames ==
    /\ video.pc = "pass2"
    /\ video.t > Len(video.unique_timestamps)
    /\ video' = [video EXCEPT !.pc = "returned"]
    /\ UNCHANGED <<pipelineVars, ollama, roi>>

NextFrames ==
    \/ extract_unique_subtitle_frames
    \/ Pass1Step
    \/ Pass1Done
    \/ Pass2Step
    \/ ReturnFrames

SpecFrames == Init /\ [][NextFrames]_vars

-----------------------------------------------------------------------------
(* preprocess/video.py: get_video_narration step by step, from a video record
   that reached the narration stage *)

\* what extract_video_dimensions returns: (None, None) on any failure of
\* ffprobe (lines 69-83), else (w, h)
ProbeResults == {None} \cup {Some(<<w, h>>) : w \in Widths, h \in Heights}

\* the record of a video whose audio has been extracted and transcribed
NarrationState ==
    [EmptyState EXCEPT !.snsPlatform = "youtube", !.contentType = "video",
                       !.contentStream = "bytes", !.captionText = "caption",
                       !.audioStream = "bytes",
                       !.transcriptionText = "speech"]

InitNarration ==
    /\ pc = [r \in Requests |-> IF r = 1 THEN "narration" ELSE "none"]
    /\ request = [r \in Requests |->
                    [contentId |-> r, snsUrl |-> IF r = 1 THEN UrlA ELSE <<>>]]
    /\ ack = [r \in Requests |-> IF r = 1 THEN <<AckResponse>> ELSE <<>>]
    /\ state = [r \in Requests |-> IF r = 1 THEN NarrationState ELSE EmptyState]
    /\ exc = [r \in Requests |-> "none"]
    /\ acqCalls = [r \in Requests |->
                     IF r = 1 THEN <<"get_youtube_content">> ELSE <<>>]
    /\ payloads = [r \in Requests |-> <<>>]
    /\ sendCalls = [r \in Requests |-> 0]
    /\ posts = [r \in Requests |-> <<>>]
    /\ sendRet = [r \in Requests |-> <<>>]
    /\ retval = [r \in Requests |-> None]
    /\ escaped = [r \in Requests |-> FALSE]
    /\ ollama = OllamaIdle
    /\ video = VideoIdle
    /\ roi = RoiIdle

\* the stage taking a failed probe for a video without on-screen text
NarrationProbe_EmptyText(r) ==
    /\ pc[r] = "narration"
    /\ \E dims \in ProbeResults :
         IF dims = None
         THEN /\ roi' = [RoiIdle EXCEPT !.pc = "no_dimensions"]
              /\ state' = [state EXCEPT ![r].ocrText = ""]
              /\ pc' = [pc EXCEPT ![r] = WorkflowNext("narration", state[r])]
              /\ UNCHANGED exc
         ELSE /\ roi' = [RoiIdle EXCEPT !.pc = "probed",
                                        !.width = dims[1][1],
                                        !.height = dims[1][2]]
              /\ pc' = [pc EXCEPT ![r] = "narration_roi"]
              /\ UNCHANGED <<exc, state>>
    /\ UNCHANGED <<request, ack, acqCalls, payloads, sendCalls, posts, sendRet,
                   retval, escaped, ollama, video>>

\* lines 240-247: the stream is read from the record, the dimensions are
\* probed; without dimensions CustomError is raised inside the try block and
\* raised again as CustomError by the except clause of lines 263-265
NarrationProbe(r) ==
    /\ pc[r] = "narration"
    /\ \E dims \in ProbeResults :
         IF dims = None
         THEN /\ roi' = [RoiIdle EXCEPT !.pc = "no_dimensions"]
              /\ Raise(r, "CustomError")
         ELSE /\ roi' = [RoiIdle EXCEPT !.pc = "probed",
                                        !.width = dims[1][1],
                                        !.height = dims[1][2]]
              /\ pc' = [pc EXCEPT ![r] = "narration_roi"]
              /\ UNCHANGED exc
    /\ UNCHANGED <<request, ack, state, acqCalls, payloads, sendCalls, posts,
                   sendRet, retval, escaped, ollama, video>>

\* line 251: roi_rect = calculate_roi(video_width, video_height)
NarrationRoi(r) ==
    /\ pc[r] = "narration_roi"
    /\ roi' = [roi EXCEPT !.pc = "returned",
                          !.rect = calculate_roi(roi.width, roi.height)]
    /\ pc' = [pc EXCEPT ![r] = "narration_frames"]
    /\ UNCHANGED <<request, ack, state, exc, acqCalls, payloads, sendCalls,
                   posts, sendRet, retval, escaped, ollama, video>>

\* line 255 and lines 217-223: extract_unique_frames starts
\* extract_unique_subtitle_frames with SAMPLE_FPS and HASH_THRESHOLD; an
\* exception of the first ffmpeg run is raised again as CustomError
NarrationFrames(r) ==
    /\ pc[r] = "narration_frames"
    /\ video.pc = "idle"
    /\ \/ \E roi_frames \in SeqsUpTo(RoiSamples, MaxFrames) :
            /\ video' = [video EXCEPT !.pc = "pass1",
                                      !.roi_frames = roi_frames,
                                      !.sample_fps = SAMPLE_FPS,
                                      !.hash_threshold = HASH_THRESHOLD]
            /\ UNCHANGED <<pc, exc>>
       \/ /\ Raise(r, "CustomError")
          /\ UNCHANGED video
    /\ UNCHANGED <<request, ack, state, acqCalls, payloads, sendCalls, posts,
                   sendRet, retval, escaped, ollama, roi>>

\* lines 258-261: the frames are back, the (disabled) OCR gives "", which is
\* written to ocrText
NarrationOcr(r) ==
    /\ pc[r] = "narration_frames"
    /\ video.pc = "returned"
    /\ state' = [state EXCEPT ![r].ocrText = ""]
    /\ pc' = [pc EXCEPT ![r] = WorkflowNext("narration", state[r])]
    /\ UNCHANGED <<request, ack, exc, acqCalls, payloads, sendCalls, posts,
                   sendRet, retval, escaped>>
    /\ UNCHANGED leafVars

NextNarration ==
    \/ \E r \in Requests :
          \/ NarrationProbe(r)
          \/ NarrationRoi(r)
          \/ NarrationFrames(r)
          \/ NarrationOcr(r)
    \/ Pass1Step
    \/ Pass1Done
    \/ Pass2Step
    \/ ReturnFrames

SpecNarration == InitNarration /\ [][NextNarration]_vars

-----------------------------------------------------------------------------
(* Properties *)

Last(s) == s[Len(s)]
Finished(r) == pc[r] \in {"returned", "crashed"}
Status2xx == 200..299

\* C1: a finished run of process_extraction_in_background has constructed
\* exactly one callback payload and made exactly one delivery attempt (one
\* send_callback call, one POST); at no time are there two.
C1_ExactlyOneDelivery ==
    \A r \in Requests :
        /\ Len(payloads[r]) <= 1
        /\ sendCalls[r] <= Len(payloads[r])
        /\ Len(posts[r]) = sendCalls[r]
        /\ Finished(r) => (Len(payloads[r]) = 1 /\ sendCalls[r] = 1)

\* the run ended on the exception path after the extraction stage had
\* produced its result: the exception came from building the SUCCESS payload
C1_Witness ==
    \E r \in Requests :
        /\ pc[r] = "returned"
        /\ state[r].result # None
        /\ exc[r] = "Error"
        /\ Len(payloads[r]) = 1
        /\ payloads[r][1].resultStatus = "FAILED"
        /\ Len(posts[r]) = 1

\* C2: whenever control leaves the except clause an error of a stage has
\* reached, a FAILED payload has been constructed for delivery, and no
\* exception ever leaves the task.
C2_StageErrorBecomesFailed ==
    [][\A r \in Requests :
          /\ ~escaped'[r]
          /\ (pc[r] = "except" /\ pc'[r] # "except") =>
                /\ pc'[r] = "send_failed"
                /\ Len(payloads'[r]) = Len(payloads[r]) + 1
                /\ Last(payloads'[r]).resultStatus = "FAILED"]_vars

\* a transcription error (not a CustomError) ended in a delivered FAILED payload
C2_Witness ==
    \E r \in Requests :
        /\ pc[r] = "returned"
        /\ exc[r] = "Error"
        /\ state[r].audioStream = "bytes"
        /\ state[r].transcriptionText = "unset"
        /\ Last(payloads[r]).resultStatus = "FAILED"
        /\ ~escaped[r]

\* C3: in every payload constructed, contentInfo is present iff the status
\* is SUCCESS.
C3_ContentInfoIffSuccess ==
    \A r \in Requests : \A i \in DOMAIN payloads[r] :
        (payloads[r][i].contentInfo # None) <=>
            (payloads[r][i].resultStatus = "SUCCESS")

\* a FAILED payload built by the except clause after acquisition raised
C3_Witness ==
    \E r \in Requests :
        /\ payloads[r] # <<>>
        /\ payloads[r][1].resultStatus = "FAILED"
        /\ payloads[r][1].contentInfo = None
        /\ exc[r] = "CustomError"
        /\ state[r].captionText = "unset"

\* C4 as claimed: places is empty iff the status is FAILED.
C4_PlacesEmptyIffFailed ==
    \A r \in Requests : \A i \in DOMAIN payloads[r] :
        (payloads[r][i].places = <<>>) <=>
            (payloads[r][i].resultStatus = "FAILED")

\* C4 as amended: a FAILED payload never carries places; a SUCCESS payload
\* carries exactly the places the extraction stage produced, possibly none.
C4_FailedHasNoPlaces ==
    \A r \in Requests : \A i \in DOMAIN payloads[r] :
        /\ payloads[r][i].resultStatus = "FAILED" => payloads[r][i].places = <<>>
        /\ payloads[r][i].resultStatus = "SUCCESS" =>
              payloads[r][i].places = state[r].result[1]

\* a SUCCESS payload with no places has been delivered
C4_Witness ==
    \E r \in Requests :
        /\ pc[r] = "returned"
        /\ payloads[r][1].resultStatus = "SUCCESS"
        /\ payloads[r][1].places = <<>>

\* C5: from the moment a request is accepted its acknowledgement has been
\* returned, it is {received: true, message: "Processing started"}, it is
\* there while no stage of the pipeline has run, and nothing the pipeline
\* does later changes it.
C5_AckBeforePipeline ==
    \A r \in Requests :
        /\ pc[r] = "none" => ack[r] = <<>>
        /\ pc[r] # "none" => ack[r] = <<AckResponse>>
        /\ pc[r] = "scheduled" =>
              (state[r] = EmptyState /\ acqCalls[r] = <<>> /\ payloads[r] = <<>>)

\* the acknowledgement is out and the task has not started
C5_Witness ==
    \E r \in Requests :
        /\ pc[r] = "scheduled"
        /\ ack[r] = <<AckResponse>>
        /\ sendCalls[r] = 0

-----------------------------------------------------------------------------
(* Properties of the content router *)

\* sns_router has run for request r
Routed(r) == pc[r] \notin {"none", "scheduled", "acquire"}

HostHas(url, d) == In(<<d>>, Lower(UrlNetloc(url)))
YoutubeHost(url) == HostHas(url, "youtube.com") \/ HostHas(url, "youtu.be")
InstagramHost(url) == HostHas(url, "instagram.com")
PathHas(url, seg) == In(<<"/", seg, "/">>, Lower(UrlPath(url)))
PostMarker(url) == PathHas(url, "p")
ReelMarker(url) ==
    PathHas(url, "reel") \/ PathHas(url, "reels") \/ PathHas(url, "tv")
Classified(r, platform, type) ==
    state[r].snsPlatform = platform /\ state[r].contentType = type

\* C6 as claimed: a YouTube host gives (youtube, video); an Instagram host
\* with /p/ gives (instagram, image); an Instagram host with a reel marker
\* gives (instagram, video).
C6_ClassificationAsClaimed ==
    \A r \in Requests :
        LET url == request[r].snsUrl IN
        Routed(r) =>
            /\ YoutubeHost(url) => Classified(r, "youtube", "video")
            /\ (InstagramHost(url) /\ PostMarker(url)) =>
                  Classified(r, "instagram", "image")
            /\ (InstagramHost(url) /\ ReelMarker(url)) =>
                  Classified(r, "instagram", "video")

\* C6 as amended: the YouTube test comes first and the /p/ test comes before
\* the reel test.  A YouTube host gives (youtube, video) whatever the path;
\* a host with instagram.com and no YouTube domain gives (instagram, image)
\* when the path has /p/, and (instagram, video) when it has a reel marker
\* and no /p/.
C6_Classification ==
    \A r \in Requests :
        LET url == request[r].snsUrl IN
        Routed(r) =>
            /\ YoutubeHost(url) => Classified(r, "youtube", "video")
            /\ (InstagramHost(url) /\ ~YoutubeHost(url) /\ PostMarker(url)) =>
                  Classified(r, "instagram", "image")
            /\ (InstagramHost(url) /\ ~YoutubeHost(url) /\ ReelMarker(url)
                  /\ ~PostMarker(url)) =>
                  Classified(r, "instagram", "video")

\* an Instagram URL whose path has a reel marker and /p/ was classified image
C6_Witness ==
    \E r \in Requests :
        LET url == request[r].snsUrl IN
        /\ Routed(r)
        /\ InstagramHost(url) /\ ~YoutubeHost(url)
        /\ ReelMarker(url) /\ PostMarker(url)
        /\ Classified(r, "instagram", "image")

UnknownHost(url) == ~YoutubeHost(url) /\ ~InstagramHost(url)
RouterRejected(r) ==
    /\ pc[r] \in {"except", "send_failed", "returned"}
    /\ exc[r] = "CustomError"
    /\ acqCalls[r] = <<>>

-----------------------------------------------------------------------------
(* Properties of the pipeline's outcome *)

\* the acquisition collaborator was called and delivered no content
AcquisitionFailed(r) ==
    /\ acqCalls[r] # <<>>
    /\ state[r].contentStream = "None" \/ state[r].imageStream = "None"

\* C8: a request whose acquisition failed ends with one payload: FAILED,
\* platform guessed from the URL, no contentInfo, no places.
C8_AcquisitionFailureFails ==
    \A r \in Requests :
        (pc[r] = "returned" /\ AcquisitionFailed(r)) =>
            /\ Len(payloads[r]) = 1
            /\ payloads[r][1].resultStatus = "FAILED"
            /\ payloads[r][1].snsPlatform = FailedPlatformGuess(request[r].snsUrl)
            /\ payloads[r][1].contentInfo = None
            /\ payloads[r][1].places = <<>>

\* C9: a run in which no stage raised ends with one SUCCESS payload whose
\* platform is the upper-cased platform sns_router detected; scenario A's
\* URL is classified (youtube, video) and reports YOUTUBE.
C9_SuccessPlatform ==
    \A r \in Requests :
        (pc[r] = "returned" /\ exc[r] = "none") =>
            /\ Len(payloads[r]) = 1
            /\ payloads[r][1].resultStatus = "SUCCESS"
            /\ state[r].snsPlatform = "youtube" =>
                  payloads[r][1].snsPlatform = "YOUTUBE"
            /\ state[r].snsPlatform = "instagram" =>
                  payloads[r][1].snsPlatform = "INSTAGRAM"
            /\ state[r].snsPlatform \in {"youtube", "instagram"}
            /\ request[r].snsUrl = UrlA =>
                  /\ Classified(r, "youtube", "video")
                  /\ payloads[r][1].snsPlatform = "YOUTUBE"

\* scenario A ran to the end without an error
C9_Witness ==
    \E r \in Requests :
        /\ pc[r] = "returned"
        /\ exc[r] = "none"
        /\ request[r].snsUrl = UrlA
        /\ payloads[r][1].resultStatus = "SUCCESS"
        /\ payloads[r][1].snsPlatform = "YOUTUBE"

\* C10: every send_callback call returned a value (it never raised), and
\* the value is true exactly when the POST got a response with a status in
\* [200, 300).
C10_SendCallbackResult ==
    \A r \in Requests :
        /\ Len(sendRet[r]) = sendCalls[r]
        /\ Len(posts[r]) = sendCalls[r]
        /\ \A i \in DOMAIN sendRet[r] :
              sendRet[r][i] <=>
                  (posts[r][i].kind = "response" /\ posts[r][i].status \in Status2xx)

\* a callback answered with HTTP 500 returned false
C10_Witness ==
    \E r \in Requests :
        /\ posts[r] = <<[kind |-> "response", status |-> 500]>>
        /\ sendRet[r] = <<FALSE>>

-----------------------------------------------------------------------------
(* Properties of the narrow place-name extraction *)

\* the caption is empty or consists of whitespace only
WhitespaceOnly(caption) == \A k \in DOMAIN caption : caption[k] = " "

\* every backend call made so far failed
AllAttemptsFailed == Len(ollama.errors) = ollama.calls

C12_BlankCaptionNoCall ==
    (ollama.pc # "idle" /\ WhitespaceOnly(ollama.caption)) =>
        /\ ollama.pc = "returned"
        /\ ollama.result = Some([place_names |-> <<>>, has_places |-> FALSE])
        /\ ollama.calls = 0
        /\ ollama.errors = <<>>

\* a whitespace-only caption returned the empty result with no call made
C12_Witness ==
    /\ ollama.pc = "returned"
    /\ ollama.caption = <<" ", " ">>
    /\ ollama.max_retries = 3
    /\ ollama.calls = 0
    /\ ollama.result = Some([place_names |-> <<>>, has_places |-> FALSE])

-----------------------------------------------------------------------------
(* Properties of the subtitle-frame extractor *)

\* pass 1 has gone through every sample
Pass1Over == video.pc \in {"pass2", "returned"}

AllDecodable == \A k \in DOMAIN video.roi_frames : video.roi_frames[k].ok

\* the time of the k-th sample, (k - 1) / sample_fps
SampleTime(k) == [num |-> k - 1, den |-> video.sample_fps]

SameHash ==
    \A k \in DOMAIN video.roi_frames :
        video.roi_frames[k].hash = video.roi_frames[1].hash

\* the samples alternate a, b, a, b, ...
Alternating(a, b) ==
    \A k \in DOMAIN video.roi_frames :
        video.roi_frames[k].hash = IF k % 2 = 1 THEN a ELSE b

\* C13: after pass 1 over decodable samples, samples that all have the same
\* hash leave exactly one change point, the time of the first sample, and
\* samples alternating between two hashes more than the threshold apart
\* leave every sample's time as a change point.
C13_ChangeDetection ==
    (Pass1Over /\ AllDecodable /\ video.roi_frames # <<>>) =>
        /\ SameHash => video.unique_timestamps = <<SampleTime(1)>>
        /\ (\E a, b \in Hashes :
                /\ Alternating(a, b)
                /\ HashDistance(a, b) > video.hash_threshold) =>
              video.unique_timestamps =
                  [k \in DOMAIN video.roi_frames |-> SampleTime(k)]

\* three samples alternating between two hashes 11 bits apart, threshold 10:
\* three change points
C13_Witness ==
    /\ Pass1Over
    /\ video.hash_threshold = 10
    /\ Len(video.roi_frames) = 3
    /\ AllDecodable
    /\ Alternating({}, 1..11)
    /\ Len(video.unique_timestamps) = 3

\* a / b < c / d for fractions with positive denominators
TimeLess(x, y) == x.num * y.den < y.num * x.den

StrictlyIncreasing(ts) ==
    \A k \in 1..(Len(ts) - 1) : TimeLess(ts[k], ts[k + 1])

\* a is b with some of its elements left out
RECURSIVE IsSubseq(_, _)
IsSubseq(a, b) ==
    IF a = <<>> THEN TRUE
    ELSE IF b = <<>> THEN FALSE
    ELSE IF Head(a) = Head(b) THEN IsSubseq(Tail(a), Tail(b))
    ELSE IsSubseq(a, Tail(b))

ResultTimes == [k \in DOMAIN video.final_frames |-> video.final_frames[k].t]

\* C15: the frames collected for the result are (timestamp, full frame)
\* pairs in strictly increasing timestamp order, and their timestamps are
\* the change points of pass 1 with some left out, in the same order and
\* none repeated.
C15_ResultOrdered ==
    /\ StrictlyIncreasing(video.unique_timestamps)
    /\ StrictlyIncreasing(ResultTimes)
    /\ IsSubseq(ResultTimes, video.unique_timestamps)
    /\ \A k \in DOMAIN video.final_frames : video.final_frames[k].frame = "full"
    /\ \A k \in DOMAIN video.unique_timestamps :
          \E j \in DOMAIN video.roi_frames :
              video.roi_frames[j].ok /\ video.unique_timestamps[k] = SampleTime(j)

\* three change points, the frame of the second one discarded by pass 2
C15_Witness ==
    /\ video.pc = "returned"
    /\ Len(video.unique_timestamps) = 3
    /\ ResultTimes = <<video.unique_timestamps[1], video.unique_timestamps[3]>>

-----------------------------------------------------------------------------
(* Properties of the region computation *)

\* C14: calculate_roi returns (0, floor(height * 0.60), width,
\* floor(height * 0.40)); for 1080 x 1920 that is (0, 1152, 1080, 768); and
\* for every positive width and height the region ends inside the frame,
\* y + h <= height.
C14_RoiRegion ==
    roi.pc = "returned" =>
        /\ roi.rect = <<0, (3 * roi.height) \div 5, roi.width,
                        (2 * roi.height) \div 5>>
        /\ roi.rect[2] + roi.rect[4] <= roi.height
        /\ (roi.width = 1080 /\ roi.height = 1920) =>
              roi.rect = <<0, 1152, 1080, 768>>

\* the region of the 1080 x 1920 video has been computed
C14_Witness ==
    /\ roi.pc = "returned"
    /\ roi.width = 1080
    /\ roi.height = 1920
    /\ roi.rect = <<0, 1152, 1080, 768>>

-----------------------------------------------------------------------------
(* Properties of concurrent requests *)

\* every payload of a request is made of that request's own identity, URL
\* and extraction record
OwnPayloads ==
    \A r \in InFlight : \A i \in DOMAIN payloads[r] :
        LET p == payloads[r][i] IN
        /\ p.contentId = r
        /\ p.contentId = request[r].contentId
        /\ p.resultStatus = "SUCCESS" =>
              /\ p.snsPlatform =
                    Upper(SnsRouterClassify(request[r].snsUrl).snsPlatform)
              /\ p.contentInfo[1].contentId = r
              /\ p.contentInfo[1].summary = Get(state[r].captionText, "")
              /\ p.places = state[r].result[1]
        /\ p.resultStatus = "FAILED" =>
              p.snsPlatform = FailedPlatformGuess(request[r].snsUrl)

\* a step leaves everything of the requests other than r as it is
TouchesOnly(r) ==
    \A q \in InFlight \ {r} :
        /\ pc'[q] = pc[q]
        /\ request'[q] = request[q]
        /\ ack'[q] = ack[q]
        /\ state'[q] = state[q]
        /\ exc'[q] = exc[q]
        /\ acqCalls'[q] = acqCalls[q]
        /\ payloads'[q] = payloads[q]
        /\ sendCalls'[q] = sendCalls[q]
        /\ posts'[q] = posts[q]
        /\ sendRet'[q] = sendRet[q]
        /\ retval'[q] = retval[q]
        /\ escaped'[q] = escaped[q]

\* C16: with several requests in flight, every step reads and writes the
\* record of one request only, and whatever the interleaving a request's
\* payload carries its own contentId, platform, summary and places.
C16_TasksIsolated ==
    /\ []OwnPayloads
    /\ [][\E r \in InFlight : TouchesOnly(r)]_vars

\* two requests for different platforms are in flight at once, each with
\* its payload built
C16_Witness ==
    /\ pc[1] = "send_success"
    /\ pc[2] = "send_success"
    /\ payloads[1][1].snsPlatform = "YOUTUBE"
    /\ payloads[2][1].snsPlatform = "INSTAGRAM"
    /\ payloads[1][1].contentId = 1
    /\ payloads[2][1].contentId = 2

\* a pipeline of some request is between its start and its end
PipelineInFlight(q) == pc[q] \notin {"none", "returned", "crashed"}

\* C17: accepting and acknowledging a request that has not arrived yet is
\* enabled in every state, whatever the number and the stages of the
\* pipelines in flight, and every accepted request has its own task.
C17_AcceptAlwaysEnabled ==
    \A r \in InFlight :
        /\ pc[r] = "none" => ENABLED extract_places(r)
        /\ pc[r] # "none" => ack[r] = <<AckResponse>>

\* a request can be accepted while another one is being transcribed
C17_Witness ==
    /\ pc[1] = "stt"
    /\ pc[2] = "none"
    /\ ENABLED extract_places(2)

-----------------------------------------------------------------------------
(* Properties of the acquisition dispatch *)

\* C18: whenever an acquisition collaborator has been invoked for a record,
\* the platform and the content type of the record are resolved to known
\* values, and the collaborator is the one of that platform.
C18_ResolvedBeforeAcquisition ==
    \A r \in Requests :
        acqCalls[r] # <<>> =>
            /\ state[r].snsPlatform \in {"youtube", "instagram"}
            /\ state[r].contentType \in {"image", "video"}
            /\ \A i \in DOMAIN acqCalls[r] :
                  acqCalls[r][i] =
                      IF state[r].snsPlatform = "youtube"
                      THEN "get_youtube_content"
                      ELSE "get_instagram_content_ytdlp"

\* the Instagram download was invoked for a record resolved to
\* (instagram, image)
C18_Witness ==
    \E r \in Requests :
        /\ acqCalls[r] = <<"get_instagram_content_ytdlp">>
        /\ Classified(r, "instagram", "image")
        /\ state[r].imageStream = "list"

\* the path as written (not lower-cased) has none of the prefixes
\* extract_instagram_id looks for
NoIdPrefix(url) ==
    \A seg \in {"p", "reel", "reels", "tv"} :
        ~In(<<"/", seg, "/">>, UrlPath(url))

\* the Instagram collaborator was called for r and raised
CollaboratorRaised(r) ==
    /\ acqCalls[r] = <<"get_instagram_content_ytdlp">>
    /\ NoIdPrefix(request[r].snsUrl)

-----------------------------------------------------------------------------
(* Properties of the stage sequence *)

\* audio extraction or transcription is about to run, or has run, for r
AudioStagesReached(r) ==
    \/ pc[r] \in {"audio", "stt", "narration"}
    \/ state[r].audioStream # "unset"
    \/ state[r].transcriptionText # "unset"

\* C20: audio extraction and transcription are reached only by a request
\* whose content type is video, and an image request whose acquisition
\* returned goes straight to structured extraction.
C20_AudioOnlyForVideo ==
    /\ [](\A r \in Requests :
            AudioStagesReached(r) => state[r].contentType = "video")
    /\ [][\A r \in Requests :
            (pc[r] = "acquire" /\ pc'[r] # "except"
               /\ state'[r].contentType = "image") => pc'[r] = "llm"]_vars

\* an image request is at structured extraction with no audio and no
\* transcript in its record
C20_Witness ==
    \E r \in Requests :
        /\ pc[r] = "llm"
        /\ state[r].contentType = "image"
        /\ acqCalls[r] = <<"get_instagram_content_ytdlp">>
        /\ state[r].audioStream = "unset"
        /\ state[r].transcriptionText = "unset"

-----------------------------------------------------------------------------
(* Properties of the orchestrator's control flow *)

\* the position of a control point in process_extraction_in_background
StageRank(p) ==
    CASE p = "none" -> 0
      [] p = "scheduled" -> 1
      [] p = "acquire" -> 2
      [] p = "audio" -> 3
      [] p = "stt" -> 4
      [] p = "narration" -> 5
      [] p = "llm" -> 6
      [] p = "meta" -> 7
      [] p = "build" -> 8
      [] p = "except" -> 9
      [] p \in {"send_success", "send_failed"} -> 10
      [] p \in {"returned", "crashed"} -> 11

\* the orchestrator state a control point belongs to
OrchestratorState(p) ==
    CASE p = "none" -> "NONE"
      [] p = "scheduled" -> "INITIATED"
      [] p = "acquire" -> "ACQUIRING"
      [] p \in {"audio", "stt", "narration"} -> "TRANSCRIBING"
      [] p \in {"llm", "meta"} -> "EXTRACTING"
      [] p \in {"build", "except", "send_success", "send_failed"} -> "DELIVERING"
      [] p \in {"returned", "crashed"} -> "TERMINAL"

StateRank(s) ==
    CASE s = "NONE" -> 0
      [] s = "INITIATED" -> 1
      [] s = "ACQUIRING" -> 2
      [] s = "TRANSCRIBING" -> 3
      [] s = "EXTRACTING" -> 4
      [] s = "DELIVERING" -> 5
      [] s = "TERMINAL" -> 6

\* a stage of request r has failed
StageFailed(r) == exc[r] # "none"

\* C21: within one request the orchestrator states are visited only in the
\* order INITIATED, ACQUIRING, TRANSCRIBING, EXTRACTING, DELIVERING, terminal;
\* every step of the task moves to a later control point, so no stage runs
\* twice; a failing stage hands control to the except clause at once, and
\* from the failure on the task is in DELIVERING or terminated.
C21_StageOrder ==
    /\ [](\A r \in Requests :
            StageFailed(r) =>
                OrchestratorState(pc[r]) \in {"DELIVERING", "TERMINAL"})
    /\ [][\A r \in Requests :
            /\ pc'[r] # pc[r] =>
                  /\ StageRank(pc[r]) < StageRank(pc'[r])
                  /\ StateRank(OrchestratorState(pc[r])) <=
                        StateRank(OrchestratorState(pc'[r]))
            /\ exc'[r] # exc[r] => (pc[r] # "except" /\ pc'[r] = "except")
            /\ pc[r] = "except" => pc'[r] \in {"except", "send_failed", "crashed"}
            /\ pc'[r] = pc[r] =>
                  <<state[r], payloads[r], sendCalls[r], acqCalls[r]>>' =
                  <<state[r], payloads[r], sendCalls[r], acqCalls[r]>>]_vars

\* transcription succeeded, extraction failed: the task went from EXTRACTING
\* to the except clause and delivered FAILED without deriving metadata
C21_Witness ==
    \E r \in Requests :
        /\ pc[r] = "returned"
        /\ state[r].transcriptionText = "speech"
        /\ state[r].result = None
        /\ exc[r] = "Error"
        /\ sendCalls[r] = 1
        /\ Last(payloads[r]).resultStatus = "FAILED"

\* the delivery of request r was answered with a 2xx status
Delivered2xx(r) ==
    /\ posts[r] # <<>>
    /\ Last(posts[r]).kind = "response"
    /\ Last(posts[r]).status \in Status2xx

\* C22 as claimed: the value the task returns is the outcome of its callback
\* delivery on the SUCCESS and the FAILED path alike, true exactly when the
\* backend answered with a 2xx status.
C22_ReturnIsDeliveryOutcome ==
    \A r \in Requests :
        pc[r] = "returned" => retval[r] = Some(Delivered2xx(r))

\* C22 as amended: on the SUCCESS path the value the task returns is the
\* outcome of its callback delivery, true exactly when the backend answered
\* with a 2xx status; on the FAILED path the task returns False whatever the
\* outcome of the delivery.
C22_ReturnValue ==
    \A r \in Requests :
        pc[r] = "returned" =>
            /\ Last(sendRet[r]) = Delivered2xx(r)
            /\ Last(payloads[r]).resultStatus = "SUCCESS" =>
                  retval[r] = Some(Delivered2xx(r))
            /\ Last(payloads[r]).resultStatus = "FAILED" =>
                  retval[r] = Some(FALSE)

\* a FAILED payload was delivered and answered 2xx, and the task returned
\* False
C22_Witness ==
    \E r \in Requests :
        /\ pc[r] = "returned"
        /\ Last(payloads[r]).resultStatus = "FAILED"
        /\ Delivered2xx(r)
        /\ Last(sendRet[r]) = TRUE
        /\ retval[r] = Some(FALSE)

-----------------------------------------------------------------------------
(* Properties of the two passes of extract_unique_subtitle_frames *)

\* this step is one iteration of pass 1
Pass1Iteration == video.pc = "pass1" /\ video'.i # video.i

\* the sample the iteration looks at
Pass1Sample == video.roi_frames[video.i + 1]

\* the iteration records a change point
Pass1Records == video'.unique_timestamps # video.unique_timestamps

\* C23: an iteration of pass 1 records a change point only if there is no
\* reference hash yet or the distance of the sample to the reference hash is
\* strictly greater than the threshold; the reference hash becomes the
\* sample's hash when a change point is recorded and stays as it is
\* otherwise, so a sample is compared with the last change point recorded.
C23_ChangePointRule ==
    [][Pass1Iteration =>
          /\ Pass1Records =>
                \/ video.last_hash = None
                \/ HashDistance(video.last_hash[1], Pass1Sample.hash) >
                      video.hash_threshold
          /\ Pass1Records => video'.last_hash = Some(Pass1Sample.hash)
          /\ ~Pass1Records => video'.last_hash = video.last_hash]_vars

\* threshold 5, samples of weight 0, 5, 10: the second is at distance 5 from
\* the reference and is no change point; the third, at distance 5 from the
\* second and 10 from the reference, is one
C23_Witness ==
    /\ Pass1Over
    /\ video.hash_threshold = DefaultHashThreshold
    /\ Len(video.roi_frames) = 3
    /\ AllDecodable
    /\ video.roi_frames[1].hash = {}
    /\ video.roi_frames[2].hash = 1..5
    /\ video.roi_frames[3].hash = 1..10
    /\ video.unique_timestamps = <<SampleTime(1), SampleTime(3)>>
    /\ video.last_hash = Some(1..10)

\* C24: an iteration of pass 1 on a sample that cannot be decoded records
\* nothing, leaves the reference hash and the list of change points as they
\* are and goes on to the next sample; a change point recorded by any
\* iteration carries the sample's own index divided by the sample rate.
C24_CorruptSampleSkipped ==
    [][Pass1Iteration =>
          /\ video'.i = video.i + 1
          /\ video'.pc = "pass1"
          /\ ~Pass1Sample.ok =>
                /\ video'.unique_timestamps = video.unique_timestamps
                /\ video'.last_hash = video.last_hash
          /\ Pass1Records =>
                /\ Pass1Sample.ok
                /\ video'.unique_timestamps =
                      Append(video.unique_timestamps,
                             [num |-> video.i, den |-> video.sample_fps])]_vars

\* the first sample could not be decoded, the second and third were recorded
\* at 1/sample_fps and 2/sample_fps
C24_Witness ==
    /\ Pass1Over
    /\ Len(video.roi_frames) = 3
    /\ ~video.roi_frames[1].ok
    /\ video.roi_frames[2].ok /\ video.roi_frames[3].ok
    /\ video.unique_timestamps =
          <<[num |-> 1, den |-> SAMPLE_FPS], [num |-> 2, den |-> SAMPLE_FPS]>>

\* this step is one iteration of pass 2: one decode at one change point
Pass2Iteration == video.pc = "pass2" /\ video'.t # video.t

\* C25: pass 2 decodes the change points one after the other, each once: an
\* iteration moves to the next change point, adds the frame decoded at the
\* current one or adds nothing, and neither repeats nor ends the pass; the
\* function returns after as many decodes as there are change points.  The
\* result has at most as many entries as there are change points and is
\* empty when pass 1 had no samples or found no change point.
C25_Pass2OncePerChangePoint ==
    /\ [](/\ Len(video.final_frames) <= Len(video.unique_timestamps)
          /\ video.t - 1 <= Len(video.unique_timestamps)
          /\ Len(video.final_frames) <= video.t - 1
          /\ video.pc = "returned" =>
                /\ video.unique_timestamps # <<>> =>
                      video.t - 1 = Len(video.unique_timestamps)
                /\ (video.roi_frames = <<>> \/ video.unique_timestamps = <<>>) =>
                      (video.final_frames = <<>> /\ video.t = 1))
    /\ [][Pass2Iteration =>
            /\ video'.t = video.t + 1
            /\ video'.pc = "pass2"
            /\ video'.unique_timestamps = video.unique_timestamps
            /\ \/ video'.final_frames = video.final_frames
               \/ video'.final_frames =
                     Append(video.final_frames,
                            [t |-> video.unique_timestamps[video.t],
                             frame |-> "full"])]_vars

\* two change points: the frame at the first was discarded, the frame at the
\* second is the only entry of the result
C25_Witness ==
    /\ video.pc = "returned"
    /\ Len(video.unique_timestamps) = 2
    /\ video.t = 3
    /\ Len(video.final_frames) = 1
    /\ video.final_frames[1].t = video.unique_timestamps[2]

-----------------------------------------------------------------------------
(* Properties of get_video_narration *)

\* the probe of request r's video reported no dimensions
NoDimensions == roi.pc = "no_dimensions"

\* C26: when the probe reports no dimensions the narration stage ends with
\* CustomError: the region is not computed, no pass of the frame extraction
\* runs, and ocrText is not written, neither at the failure nor afterwards.
C26_NoDimensionsFails ==
    /\ [](\A r \in Requests :
            (pc[r] # "none" /\ NoDimensions) =>
                /\ pc[r] = "except"
                /\ exc[r] = "CustomError"
                /\ roi = [RoiIdle EXCEPT !.pc = "no_dimensions"]
                /\ video = VideoIdle
                /\ state[r].ocrText = "unset")
    /\ [](\A r \in Requests :
            /\ video.pc # "idle" => roi.pc = "returned"
            /\ state[r].ocrText # "unset" => video.pc = "returned")

\* the probe failed and the stage raised CustomError
C26_Witness ==
    \E r \in Requests :
        /\ NoDimensions
        /\ pc[r] = "except"
        /\ exc[r] = "CustomError"
        /\ state[r].ocrText = "unset"
        /\ state[r].transcriptionText = "speech"

-----------------------------------------------------------------------------
(* Termination of the background task *)

\* C27: every task that has been created eventually returns, after exactly
\* one delivery attempt; no exception leaves the task, and a task in which a
\* stage failed returns only after the except clause has built the FAILED
\* payload.
C27_TaskTerminates ==
    /\ \A r \in Requests :
          (pc[r] = "scheduled") ~> (pc[r] = "returned" /\ sendCalls[r] = 1)
    /\ [](\A r \in Requests :
            /\ ~escaped[r]
            /\ pc[r] # "crashed"
            /\ (pc[r] \in {"send_failed", "returned"} /\ StageFailed(r)) =>
                  Last(payloads[r]).resultStatus = "FAILED"
            /\ (pc[r] = "returned" /\ ~StageFailed(r)) =>
                  Last(payloads[r]).resultStatus = "SUCCESS")

\* a task whose audio stage found no content stream has returned after its
\* FAILED delivery, which the backend did not answer
C27_Witness ==
    \E r \in Requests :
        /\ pc[r] = "returned"
        /\ state[r].contentStream = "None"
        /\ exc[r] = "CustomError"
        /\ sendCalls[r] = 1
        /\ Last(posts[r]).kind # "response"

-----------------------------------------------------------------------------
(* The retry loop of extract_place_names_with_ollama *)

\* this step is a backend call whose response parsed
OllamaSuccess ==
    /\ ollama.pc = "loop"
    /\ ollama'.calls # ollama.calls
    /\ ollama'.errors = ollama.errors

\* C28: the attempt whose response parses is the last one: it is attempt
\* number k = calls made so far + 1 <= max_retries, the k - 1 attempts
\* before it all failed, the function returns with exactly k calls made and
\* makes none afterwards, and the result carries the place names of that
\* response with has_places true exactly when the list is not empty.
C28_FirstSuccessReturns ==
    /\ [](ollama.pc = "returned" =>
            ollama.result[1].has_places =
                (Len(ollama.result[1].place_names) > 0))
    /\ [][OllamaSuccess =>
              /\ ollama'.pc = "returned"
              /\ ollama.attempt <= ollama.max_retries
              /\ ollama'.calls = ollama.attempt
              /\ Len(ollama.errors) = ollama.attempt - 1
              /\ ollama'.result # None
              /\ ollama'.result[1].place_names \in PlaceLists
              /\ ollama'.result[1].has_places =
                    (Len(ollama'.result[1].place_names) > 0)]_vars
    /\ [][ollama.pc = "returned" => ollama' = ollama]_vars

\* two attempts failed, the third gave a place name and was the last call
C28_Witness ==
    /\ ollama.pc = "returned"
    /\ ollama.max_retries = 3
    /\ ollama.calls = 3
    /\ Len(ollama.errors) = 2
    /\ ollama.result # None
    /\ ollama.result[1].place_names # <<>>
    /\ ollama.result[1].has_places

-----------------------------------------------------------------------------
(* The content the router leaves for the audio stage *)

\* sns_router returned without raising for the video record of request r
RoutedVideo(r) ==
    /\ Routed(r)
    /\ state[r].contentType = "video"
    /\ state[r].captionText # "unset"

\* C29: whenever sns_router has returned normally for a video record,
\* contentStream holds a byte buffer, and get_audio never starts on a record
\* whose contentStream is None or missing.
C29_VideoContentPresent ==
    \A r \in Requests :
        /\ RoutedVideo(r) => state[r].contentStream = "bytes"
        /\ pc[r] = "audio" => state[r].contentStream = "bytes"

-----------------------------------------------------------------------------
(* The platform of the FAILED payload *)

\* the lower-cased URL has a YouTube domain somewhere in its text
MentionsYoutube(url) ==
    In(<<"youtube.com">>, Lower(url)) \/ In(<<"youtu.be">>, Lower(url))

\* request r has a FAILED payload and sns_router had classified its URL
FailedAfterClassification(r) ==
    /\ payloads[r] # <<>>
    /\ Last(payloads[r]).resultStatus = "FAILED"
    /\ state[r].snsPlatform # "unset"

\* C30 as claimed: the FAILED payload of a request whose URL sns_router
\* classified as platform P reports the upper-cased P.
C30_FailedPlatformAsClaimed ==
    \A r \in Requests :
        FailedAfterClassification(r) =>
            Last(payloads[r]).snsPlatform = Upper(state[r].snsPlatform)

\* C30 as amended: the FAILED payload of a request whose URL sns_router
\* classified as platform P reports the upper-cased P, except that a URL
\* classified instagram whose text after the host contains youtube.com or
\* youtu.be (in any letter case) is reported as YOUTUBE.
C30_FailedPlatform ==
    \A r \in Requests :
        LET url == request[r].snsUrl IN
        FailedAfterClassification(r) =>
            /\ state[r].snsPlatform = "youtube" =>
                  Last(payloads[r]).snsPlatform = "YOUTUBE"
            /\ (state[r].snsPlatform = "instagram" /\ ~MentionsYoutube(url)) =>
                  Last(payloads[r]).snsPlatform = "INSTAGRAM"
            /\ (state[r].snsPlatform = "instagram" /\ MentionsYoutube(url)) =>
                  Last(payloads[r]).snsPlatform = "YOUTUBE"

\* an Instagram post whose query names youtube.com failed in the extraction
\* stage and was reported as YOUTUBE
C30_Witness ==
    \E r \in Requests :
        LET url == request[r].snsUrl IN
        /\ FailedAfterClassification(r)
        /\ Classified(r, "instagram", "image")
        /\ InstagramHost(url) /\ ~YoutubeHost(url)
        /\ In(<<"youtube.com">>, UrlQuery(url))
        /\ exc[r] = "Error"
        /\ Last(payloads[r]).snsPlatform = "YOUTUBE"

====
